---- MODULE Spec2Model ----
(***************************************************************************)
(* Path geometry kernel of tiny-skia (src/src/path_geometry.rs): unit      *)
(* division, quadratic and cubic root finding on (0,1), de Casteljau       *)
(* chopping, chopping at axis extrema and curve evaluation.                *)
(*                                                                         *)
(* The code computes in IEEE-754 binary32.  The model keeps the structure  *)
(* of that arithmetic (binary significand, round to nearest ties-to-even   *)
(* after every operation, gradual underflow, overflow to infinity, NaN)    *)
(* at a reduced width: Prec significand bits instead of 24 and MaxShift    *)
(* binades above the subnormals.  A finite value is the integer number of  *)
(* quanta (the smallest subnormal, 2^-FracBits) it holds; +inf, -inf and   *)
(* NaN are three integers outside the finite range.  Zero is unsigned:     *)
(* the code never divides by a zero it has not tested for, and every       *)
(* other operation it uses treats -0.0 as 0.0.                             *)
(***************************************************************************)
EXTENDS Integers, Sequences, FiniteSets, TLC

\* ------------------------------------------------------------------------
\* Bounds of the model.

\* significand bits of the modelled binary32 (24 in the code)
Prec == 3

\* binades above the subnormal range (the exponent range of the format)
MaxShift == 9

\* ------------------------------------------------------------------------
\* The floating-point format.

RECURSIVE Pow2(_)
Pow2(n) == IF n <= 0 THEN 1 ELSE 2 * Pow2(n - 1)

RECURSIVE BitLen(_)
BitLen(q) == IF q <= 0 THEN 0 ELSE 1 + BitLen(q \div 2)

Abs(x) == IF x < 0 THEN -x ELSE x

Sign(x) == IF x < 0 THEN -1 ELSE IF x > 0 THEN 1 ELSE 0

\* the quantum is 2^-FracBits; 1.0 is Pow2(FracBits) quanta
FracBits == Prec + 2

One == Pow2(FracBits)

MaxFinite == (Pow2(Prec) - 1) * Pow2(MaxShift)

PosInf == MaxFinite + 1

NegInf == -PosInf

NaN == PosInf + 1

IsNaN(x) == x = NaN

IsFinite(x) == x >= -MaxFinite /\ x <= MaxFinite

\* a non-negative rational n/d rounded to p significant bits, to nearest,
\* ties to even; the result is a multiple of the quantum
RoundMagP(p, n, d) ==
    LET q    == n \div d
        s    == IF BitLen(q) > p THEN BitLen(q) - p ELSE 0
        step == Pow2(s)
        lo   == (n \div (d * step)) * step
        rem  == n - lo * d
        half == d * step
    IN  IF 2 * rem < half THEN lo
        ELSE IF 2 * rem > half THEN lo + step
        ELSE IF (lo \div step) % 2 = 0 THEN lo ELSE lo + step

\* the spacing of the format's values at magnitude m
StepAt(m) == IF BitLen(Abs(m)) > Prec THEN Pow2(BitLen(Abs(m)) - Prec) ELSE 1

\* the rational n/d (d > 0) rounded to the format; overflow gives infinity
RoundRat(n, d) ==
    LET m == RoundMagP(Prec, Abs(n), d)
    IN  IF m > MaxFinite THEN Sign(n) * PosInf ELSE Sign(n) * m

\* the finite values of the format
Floats ==
    { sg * m * Pow2(sh) : sg \in {-1, 1}, m \in 0..(Pow2(Prec) - 1), sh \in 0..MaxShift }

FNeg(a) == IF IsNaN(a) THEN NaN ELSE -a

FAbs(a) == IF IsNaN(a) THEN NaN ELSE Abs(a)

FAdd(a, b) ==
    IF IsNaN(a) \/ IsNaN(b) THEN NaN
    ELSE IF ~IsFinite(a) /\ ~IsFinite(b) THEN (IF a = b THEN a ELSE NaN)
    ELSE IF ~IsFinite(a) THEN a
    ELSE IF ~IsFinite(b) THEN b
    ELSE RoundRat(a + b, 1)

FSub(a, b) == FAdd(a, FNeg(b))

FMul(a, b) ==
    IF IsNaN(a) \/ IsNaN(b) THEN NaN
    ELSE IF ~IsFinite(a) \/ ~IsFinite(b)
         THEN (IF a = 0 \/ b = 0 THEN NaN ELSE Sign(a) * Sign(b) * PosInf)
    ELSE RoundRat(a * b, One)

FDiv(a, b) ==
    IF IsNaN(a) \/ IsNaN(b) THEN NaN
    ELSE IF ~IsFinite(a)
         THEN (IF ~IsFinite(b) THEN NaN
               ELSE IF b < 0 THEN -a ELSE a)
    ELSE IF ~IsFinite(b) THEN 0
    ELSE IF b = 0 THEN (IF a = 0 THEN NaN ELSE Sign(a) * PosInf)
    ELSE RoundRat(Sign(b) * a * One, Abs(b))

\* comparisons: every comparison with NaN is false
FLt(a, b) == ~IsNaN(a) /\ ~IsNaN(b) /\ a < b

FLe(a, b) == ~IsNaN(a) /\ ~IsNaN(b) /\ a <= b

FGt(a, b) == FLt(b, a)

FGe(a, b) == FLe(b, a)

FEq(a, b) == ~IsNaN(a) /\ ~IsNaN(b) /\ a = b

FNe(a, b) == ~FEq(a, b)

\* the values a parameter of type f32 can hold
AllFloats == Floats \cup {PosInf, NegInf, NaN}

\* ------------------------------------------------------------------------
\* Option<T>: None is the empty sequence, Some(x) the sequence holding x.

None == << >>

Some(x) == <<x>>

IsSome(o) == Len(o) = 1

\* ------------------------------------------------------------------------
\* TValue (path_geometry.rs, mod private)

\* std::f32::EPSILON, the gap between 1.0 and the next value: 2^-(Prec-1)
EPSILON == Pow2(FracBits - Prec + 1)

\* f32::min and f32::max: a NaN operand is ignored
FMin(a, b) == IF IsNaN(a) THEN b ELSE IF IsNaN(b) THEN a ELSE IF a < b THEN a ELSE b

FMax(a, b) == IF IsNaN(a) THEN b ELSE IF IsNaN(b) THEN a ELSE IF a > b THEN a ELSE b

\* Scalar::bound: max.min(self).max(min)
bound(x, lo, hi) == FMax(FMin(hi, x), lo)

TValue_new(n) == IF FGt(n, 0) /\ FLt(n, One) THEN Some(n) ELSE None

\* a plausible slip: the roots are pinned to [0, 1] instead of
\* [EPSILON, 1 - EPSILON]
TValue_new_bounded_closed(n) == bound(n, 0, One)

TValue_new_bounded(n) == bound(n, EPSILON, FSub(One, EPSILON))

\* the values of type TValue: finite and strictly inside (0,1)
TValues == { x \in Floats : x > 0 /\ x < One }

\* ------------------------------------------------------------------------
\* valid_unit_divide

\* a plausible slip: the numerator is negated, the denominator is not
valid_unit_divide_keeps_denom(numer0, denom0) ==
    LET numer == IF FLt(numer0, 0) THEN FNeg(numer0) ELSE numer0
        denom == denom0
    IN  IF FEq(denom, 0) \/ FEq(numer, 0) \/ FGe(numer, denom)
        THEN None
        ELSE TValue_new(FDiv(numer, denom))

valid_unit_divide(numer0, denom0) ==
    LET neg   == FLt(numer0, 0)
        numer == IF neg THEN FNeg(numer0) ELSE numer0
        denom == IF neg THEN FNeg(denom0) ELSE denom0
    IN  IF FEq(denom, 0) \/ FEq(numer, 0) \/ FGe(numer, denom)
        THEN None
        ELSE TValue_new(FDiv(numer, denom))

\* ------------------------------------------------------------------------
\* f64 arithmetic of find_unit_quad_roots.  A product of two f32 values is
\* exact in f64 (53 >= 2 * 24 bits) and cannot overflow; the difference of
\* two products is rounded to the f64 significand, which the model keeps at
\* the same distance from the f32 one: PrecD = 2 * Prec + 5.  A finite f64
\* value is held in squared quanta.

PrecD == 2 * Prec + 5

DPosInf == 5 * MaxFinite * MaxFinite + 1

DNegInf == -DPosInf

DNaN == DPosInf + 1

DIsFinite(u) == u > DNegInf /\ u < DPosInf

\* f64::from(x) * f64::from(y)
DMulF(x, y) ==
    IF IsNaN(x) \/ IsNaN(y) THEN DNaN
    ELSE IF ~IsFinite(x) \/ ~IsFinite(y)
         THEN (IF x = 0 \/ y = 0 THEN DNaN ELSE Sign(x) * Sign(y) * DPosInf)
    ELSE x * y

\* 4.0 * u for an f64 u: exact, so (4.0 * a) * c is 4.0 * (a * c)
DTimes4(u) == IF DIsFinite(u) THEN 4 * u ELSE u

DSub(u, v) ==
    IF u = DNaN \/ v = DNaN THEN DNaN
    ELSE IF ~DIsFinite(u) /\ ~DIsFinite(v) THEN (IF u = -v THEN u ELSE DNaN)
    ELSE IF ~DIsFinite(u) THEN u
    ELSE IF ~DIsFinite(v) THEN -v
    ELSE Sign(u - v) * RoundMagP(PrecD, Abs(u - v), 1)

RECURSIVE ISqrt(_)
ISqrt(v) ==
    IF v < 2 THEN v
    ELSE LET r == 2 * ISqrt(v \div 4)
         IN  IF (r + 1) * (r + 1) <= v THEN r + 1 ELSE r

\* the square root of the integer v >= 0 rounded to the f32 format: lo is
\* the value below the root, the root is compared with lo + step / 2
RoundSqrt(v) ==
    LET f    == ISqrt(v)
        step == StepAt(f)
        lo   == (f \div step) * step
        low2 == lo * lo + lo * step
        mid2 == low2 + (step * step) \div 4
        m    == IF step = 1 THEN (IF low2 >= v THEN lo ELSE lo + 1)
                ELSE IF mid2 > v THEN lo
                ELSE IF mid2 < v THEN lo + step
                ELSE IF (lo \div step) % 2 = 0 THEN lo ELSE lo + step
    IN  IF m > MaxFinite THEN PosInf ELSE m

\* f64::sqrt followed by the cast to f32.  Rounding the root to f64 and then
\* to f32 gives the correctly rounded f32 root (53 >= 2 * 24 + 2).
DSqrtToF32(u) ==
    IF u = DNaN \/ u < 0 THEN NaN
    ELSE IF u = DPosInf THEN PosInf
    ELSE RoundSqrt(u)

\* f32::sqrt
FSqrt(x) ==
    IF IsNaN(x) \/ x < 0 THEN NaN
    ELSE IF x = PosInf THEN PosInf
    ELSE RoundSqrt(x * One)

Two == 2 * One

Three == 3 * One

\* ------------------------------------------------------------------------
\* find_unit_quad_roots.  The roots array is a sequence of three TValues;
\* the result holds the array as left by the call and the count returned.

\* TValue::ANY
ANY == One \div 2

new_t_values == <<ANY, ANY, ANY>>

RootsResult(n, roots) == [n |-> n, roots |-> roots]

\* The body of find_unit_quad_roots is split where a local variable is
\* bound, each part taking the locals set so far as parameters.

\* a plausible slip: the pair is not put in order
order_quad_roots_unsorted(n, roots) == RootsResult(n, roots)

\* the end of find_unit_quad_roots: n roots are stored
order_quad_roots(n, roots) ==
    IF n = 2 THEN
        IF roots[1] > roots[2]
        THEN RootsResult(2, [roots EXCEPT ![1] = roots[2], ![2] = roots[1]])
        ELSE IF roots[1] = roots[2]
        THEN RootsResult(1, roots)  \* skip the double root
        ELSE RootsResult(2, roots)
    ELSE RootsResult(n, roots)

\* r1 is valid_unit_divide(q, a), r2 is valid_unit_divide(c, q): each is
\* stored at roots_offset if it is some
store_quad_roots(r1, r2, roots) ==
    LET roots1 == IF IsSome(r1) THEN [roots EXCEPT ![1] = r1[1]] ELSE roots
        off1   == IF IsSome(r1) THEN 1 ELSE 0
        roots2 == IF IsSome(r2) THEN [roots1 EXCEPT ![off1 + 1] = r2[1]] ELSE roots1
        off2   == IF IsSome(r2) THEN off1 + 1 ELSE off1
    IN  order_quad_roots(off2, roots2)

\* r is the square root of the discriminant, as f32
quad_roots_from_sqrt(a, b, c, r, roots) ==
    IF ~IsFinite(r) THEN RootsResult(0, roots)
    ELSE
        LET q == IF FLt(b, 0) THEN FDiv(FNeg(FSub(b, r)), Two)
                               ELSE FDiv(FNeg(FAdd(b, r)), Two)
        IN  store_quad_roots(valid_unit_divide(q, a), valid_unit_divide(c, q), roots)

\* dr is the discriminant, as f64
quad_roots_from_discriminant(a, b, c, dr, roots) ==
    IF dr # DNaN /\ dr < 0 THEN RootsResult(0, roots)
    ELSE quad_roots_from_sqrt(a, b, c, DSqrtToF32(dr), roots)

find_unit_quad_roots(a, b, c, roots) ==
    IF FEq(a, 0) THEN
        LET r == valid_unit_divide(FNeg(c), b)
        IN  IF IsSome(r) THEN RootsResult(1, [roots EXCEPT ![1] = r[1]])
            ELSE RootsResult(0, roots)
    ELSE
        \* use doubles so we don't overflow temporarily trying to compute R
        quad_roots_from_discriminant(a, b, c,
                                     DSub(DMulF(b, b), DTimes4(DMulF(a, c))), roots)

\* ------------------------------------------------------------------------
\* Point and F32x2: a pair <<x, y>> of f32; F32x2 arithmetic is lane-wise.

Pt(x, y) == <<x, y>>

VAdd(u, v) == <<FAdd(u[1], v[1]), FAdd(u[2], v[2])>>

VSub(u, v) == <<FSub(u[1], v[1]), FSub(u[2], v[2])>>

VMul(u, v) == <<FMul(u[1], v[1]), FMul(u[2], v[2])>>

splat(x) == <<x, x>>

interp(v0, v1, t) == VAdd(v0, VMul(VSub(v1, v0), t))

times_2(value) == VAdd(value, value)

\* what a slot of a caller's output buffer holds before the call writes it:
\* a value no f32 equals, so that a write can be told from none
Unwritten == NaN + 1

Stale == <<Unwritten, Unwritten>>

Buffer(len) == [i \in 0..(len - 1) |-> Stale]

Written(dst) == { i \in DOMAIN dst : dst[i] # Stale }

\* dst[off + i] = pts[i + 1] for the points of the sequence pts
WriteAt(dst, off, pts) ==
    [i \in DOMAIN dst |->
        IF i >= off /\ i < off + Len(pts) THEN pts[i - off + 1] ELSE dst[i]]

\* ------------------------------------------------------------------------
\* chop_quad_at, chop_cubic_at2, chop_cubic_at.  src is a sequence of
\* points (src[1] is the code's src[0]); dst keeps the code's indices.

chop_quad_at(src, t, dst) ==
    LET p0  == src[1]
        p1  == src[2]
        p2  == src[3]
        tt  == splat(t)
        p01 == interp(p0, p1, tt)
        p12 == interp(p1, p2, tt)
    IN  WriteAt(dst, 0, <<p0, p01, interp(p01, p12, tt), p12, p2>>)

\* the seven points written at dst[off..]
chop_cubic_at2(src, t, dst, off) ==
    LET p0   == src[1]
        p1   == src[2]
        p2   == src[3]
        p3   == src[4]
        tt   == splat(t)
        ab   == interp(p0, p1, tt)
        bc   == interp(p1, p2, tt)
        cd   == interp(p2, p3, tt)
        abc  == interp(ab, bc, tt)
        bcd  == interp(bc, cd, tt)
        abcd == interp(abc, bcd, tt)
    IN  WriteAt(dst, off, <<p0, ab, abc, abcd, bcd, cd, p3>>)

RECURSIVE chop_cubic_loop(_, _, _, _, _, _)

\* a plausible slip: the degenerate cubic is written one slot short, its
\* last point left out
chop_cubic_next_short_clump(dst, i, t_values, off) ==
    LET tmp == <<dst[off], dst[off + 1], dst[off + 2], dst[off + 3]>>
        n   == valid_unit_divide(FSub(t_values[i + 2], t_values[i + 1]),
                                 FSub(One, t_values[i + 1]))
    IN  IF IsSome(n)
        THEN chop_cubic_loop(tmp, n[1], i + 1, t_values, dst, off)
        ELSE WriteAt(dst, off + 4, <<tmp[4], tmp[4]>>)

\* a plausible slip: the degenerate cubic is written one slot too far
chop_cubic_next_far_clump(dst, i, t_values, off) ==
    LET tmp == <<dst[off], dst[off + 1], dst[off + 2], dst[off + 3]>>
        n   == valid_unit_divide(FSub(t_values[i + 2], t_values[i + 1]),
                                 FSub(One, t_values[i + 1]))
    IN  IF IsSome(n)
        THEN chop_cubic_loop(tmp, n[1], i + 1, t_values, dst, off)
        ELSE WriteAt(dst, off + 4, <<tmp[4], tmp[4], tmp[4], tmp[4]>>)

\* the rest of iteration i (0-based) of the loop of chop_cubic_at, after
\* chop_cubic_at2 has written dst and dst_offset has moved on to off
chop_cubic_next(dst, i, t_values, off) ==
    \* have src point to the remaining cubic (after the chop)
    LET tmp == <<dst[off], dst[off + 1], dst[off + 2], dst[off + 3]>>
        \* watch out in case the renormalized t isn't in range
        n   == valid_unit_divide(FSub(t_values[i + 2], t_values[i + 1]),
                                 FSub(One, t_values[i + 1]))
    IN  IF IsSome(n)
        THEN chop_cubic_loop(tmp, n[1], i + 1, t_values, dst, off)
        \* if we can't, just create a degenerate cubic
        ELSE WriteAt(dst, off + 4, <<tmp[4], tmp[4], tmp[4]>>)

\* the loop of chop_cubic_at from iteration i (0-based) on: src is the cubic
\* still to chop, t the renormalized parameter, off the code's dst_offset
chop_cubic_loop(src, t, i, t_values, dst, off) ==
    IF i = Len(t_values) - 1
    THEN chop_cubic_at2(src, t, dst, off)
    ELSE chop_cubic_next(chop_cubic_at2(src, t, dst, off), i, t_values, off + 3)

chop_cubic_at(src, t_values, dst) ==
    IF Len(t_values) = 0
    THEN WriteAt(dst, 0, src)  \* nothing to chop
    ELSE chop_cubic_loop(src, t_values[1], 0, t_values, dst, 0)

\* ------------------------------------------------------------------------
\* chop_quad_at_x_extrema, chop_quad_at_y_extrema.  axis is 1 for x, 2 for y;
\* the two functions differ in nothing else.

\* a plausible slip: the sign of bc is not aligned with that of ab
is_not_monotonic_unaligned(a, b, c) ==
    LET ab == FSub(a, b)
        bc == FSub(b, c)
    IN  FEq(ab, 0) \/ FLt(bc, 0)

is_not_monotonic(a, b, c) ==
    LET ab == FSub(a, b)
        bc == IF FLt(ab, 0) THEN FNeg(FSub(b, c)) ELSE FSub(b, c)
    IN  FEq(ab, 0) \/ FLt(bc, 0)

\* p with its coordinate on axis replaced by v
SetAxis(p, axis, v) == [p EXCEPT ![axis] = v]

ChopResult(n, dst) == [n |-> n, dst |-> dst]

\* flatten double quad extrema: dst[1] and dst[3] take the junction's
\* coordinate
flatten_quad(dst, axis) ==
    [dst EXCEPT ![1] = SetAxis(dst[1], axis, dst[2][axis]),
                ![3] = SetAxis(dst[3], axis, dst[2][axis])]

\* a plausible slip: the middle point is not snapped when no chop parameter
\* could be computed
chop_quad_at_extrema_unsnapped(src, dst, axis) ==
    LET a == src[1][axis]
        b == src[2][axis]
        c == src[3][axis]
        t_value == valid_unit_divide(FSub(a, b), FAdd(FSub(FSub(a, b), b), c))
    IN  IF is_not_monotonic(a, b, c) /\ IsSome(t_value)
        THEN ChopResult(1, flatten_quad(chop_quad_at(src, t_value[1], dst), axis))
        ELSE ChopResult(0, WriteAt(dst, 0, <<src[1], src[2], src[3]>>))

chop_quad_at_extrema(src, dst, axis) ==
    LET a == src[1][axis]
        b == src[2][axis]
        c == src[3][axis]
        t_value == valid_unit_divide(FSub(a, b), FAdd(FSub(FSub(a, b), b), c))
    IN  IF is_not_monotonic(a, b, c) /\ IsSome(t_value)
        THEN ChopResult(1, flatten_quad(chop_quad_at(src, t_value[1], dst), axis))
        ELSE
            \* if we get here with a non-monotonic quad, we need to force dst to
            \* be monotonic, even though we couldn't compute a unit_divide value
            LET b1 == IF is_not_monotonic(a, b, c)
                      THEN (IF FLt(FAbs(FSub(a, b)), FAbs(FSub(b, c))) THEN a ELSE c)
                      ELSE b
            IN  ChopResult(0, WriteAt(dst, 0, <<SetAxis(src[1], axis, a),
                                                 SetAxis(src[2], axis, b1),
                                                 SetAxis(src[3], axis, c)>>))

chop_quad_at_x_extrema(src, dst) == chop_quad_at_extrema(src, dst, 1)

chop_quad_at_y_extrema(src, dst) == chop_quad_at_extrema(src, dst, 2)

\* ------------------------------------------------------------------------
\* find_cubic_extrema, chop_cubic_at_x_extrema, chop_cubic_at_y_extrema

\* the slice &t_values[0..roots]
Prefix(r) == SubSeq(r.roots, 1, r.n)

find_cubic_extrema(a, b, c, d, t_values) ==
    \* we divide A,B,C by 3 to simplify
    LET na == FAdd(FSub(d, a), FMul(Three, FSub(b, c)))
        nb == FMul(Two, FAdd(FSub(FSub(a, b), b), c))
        nc == FSub(b, a)
    IN  find_unit_quad_roots(na, nb, nc, t_values)

\* a plausible slip: the second junction is flattened from the first
flatten_cubic_wrong_junction(dst, n, axis) ==
    LET d1 == IF n > 0
              THEN [dst EXCEPT ![2] = SetAxis(dst[2], axis, dst[3][axis]),
                               ![4] = SetAxis(dst[4], axis, dst[3][axis])]
              ELSE dst
    IN  IF n = 2
        THEN [d1 EXCEPT ![5] = SetAxis(d1[5], axis, d1[3][axis]),
                        ![7] = SetAxis(d1[7], axis, d1[3][axis])]
        ELSE d1

\* we do some cleanup to ensure our extrema are flat: n is t_values.len()
flatten_cubic(dst, n, axis) ==
    LET d1 == IF n > 0
              THEN [dst EXCEPT ![2] = SetAxis(dst[2], axis, dst[3][axis]),
                               ![4] = SetAxis(dst[4], axis, dst[3][axis])]
              ELSE dst
    IN  IF n = 2
        THEN [d1 EXCEPT ![5] = SetAxis(d1[5], axis, d1[6][axis]),
                        ![7] = SetAxis(d1[7], axis, d1[6][axis])]
        ELSE d1

\* the chop and the cleanup, t_values being the slice find_cubic_extrema
\* returned
chop_cubic_at_roots(src, t_values, dst, axis) ==
    ChopResult(Len(t_values),
               flatten_cubic(chop_cubic_at(src, t_values, dst), Len(t_values), axis))

chop_cubic_at_extrema(src, dst, axis) ==
    chop_cubic_at_roots(src,
                        Prefix(find_cubic_extrema(src[1][axis], src[2][axis],
                                                  src[3][axis], src[4][axis],
                                                  new_t_values)),
                        dst, axis)

chop_cubic_at_x_extrema(src, dst) == chop_cubic_at_extrema(src, dst, 1)

chop_cubic_at_y_extrema(src, dst) == chop_cubic_at_extrema(src, dst, 2)

\* ------------------------------------------------------------------------
\* The elementary functions solve_cubic_poly calls.  An angle is held in
\* fixed point with AngleBits fractional bits; cos is summed from its series
\* after reduction to [0, pi/2], acos is found by bisection on cos, and the
\* result is rounded to the format.

AngleBits == 13

AngleOne == Pow2(AngleBits)

\* pi in fixed point
PiS == (355 * AngleOne) \div 113

\* the number of terms of the cosine series
CosTerms == 6

\* 1 - x2/((2k-1)2k) * (1 - x2/((2k+1)(2k+2)) * (...)), for x2 = x^2
RECURSIVE CosSeries(_, _)
CosSeries(x2, k) ==
    IF k > CosTerms THEN AngleOne
    ELSE AngleOne - (x2 * CosSeries(x2, k + 1)) \div ((2 * k - 1) * 2 * k * AngleOne)

\* cos of a fixed-point angle, in fixed point
CosS(xs) ==
    LET r == Abs(xs) % (2 * PiS)
        h == IF r > PiS THEN 2 * PiS - r ELSE r
    IN  IF 2 * h <= PiS THEN CosSeries((h * h) \div AngleOne, 1)
        ELSE -CosSeries(((PiS - h) * (PiS - h)) \div AngleOne, 1)

\* f32::cos
FCos(x) ==
    IF ~IsFinite(x) THEN NaN
    ELSE RoundRat(CosS((x * AngleOne) \div One) * One, AngleOne)

\* the angle in lo..hi whose cosine is ys: cos falls from lo to hi
RECURSIVE AcosSearch(_, _, _)
AcosSearch(ys, lo, hi) ==
    IF hi - lo <= 1 THEN lo
    ELSE LET mid == (lo + hi) \div 2
         IN  IF CosS(mid) >= ys THEN AcosSearch(ys, mid, hi)
             ELSE AcosSearch(ys, lo, mid)

\* f32::acos
FAcos(y) ==
    IF IsNaN(y) \/ y > One \/ y < -One THEN NaN
    ELSE IF y = One THEN 0
    ELSE IF y = -One THEN RoundRat(PiS * One, AngleOne)
    ELSE RoundRat(AcosSearch((y * AngleOne) \div One, 0, PiS) * One, AngleOne)

\* crate::floating_point::FLOAT_PI
FLOAT_PI == RoundRat(355 * One, 113)

RECURSIVE ICbrt(_)
ICbrt(v) ==
    IF v < 8 THEN (IF v >= 1 THEN 1 ELSE 0)
    ELSE LET r == 2 * ICbrt(v \div 8)
         IN  IF (r + 1) * (r + 1) * (r + 1) <= v THEN r + 1 ELSE r

\* the cube root of the integer v >= 0 rounded to the format
RoundCbrt(v) ==
    LET f    == ICbrt(v)
        step == StepAt(f)
        lo   == (f \div step) * step
        mid2 == 2 * lo + step
    IN  IF mid2 * mid2 * mid2 > 8 * v THEN lo
        ELSE IF mid2 * mid2 * mid2 < 8 * v THEN lo + step
        ELSE IF (lo \div step) % 2 = 0 THEN lo ELSE lo + step

\* x.powf(0.3333333): the cube root, rounded
scalar_cube_root(x) ==
    IF IsNaN(x) \/ x < 0 THEN NaN
    ELSE IF x = PosInf THEN PosInf
    ELSE RoundCbrt(x * One * One)

\* a literal of the source, rounded to the format
Lit(n) == RoundRat(n * One, 1)

\* crate::scalar::SCALAR_NEARLY_ZERO, a fixed small threshold: about the
\* square root of EPSILON
SCALAR_NEARLY_ZERO == Pow2(FracBits - (Prec + 1) \div 2)

\* Scalar::is_nearly_zero
is_nearly_zero(x) == FLe(FAbs(x), SCALAR_NEARLY_ZERO)

\* Scalar::invert
invert(x) == FDiv(One, x)

\* ------------------------------------------------------------------------
\* solve_cubic_poly and the root finders built on it

sort_array3(array) ==
    LET s1 == IF array[1] > array[2] THEN <<array[2], array[1], array[3]>> ELSE array
        s2 == IF s1[2] > s1[3] THEN <<s1[1], s1[3], s1[2]>> ELSE s1
    IN  IF s2[1] > s2[2] THEN <<s2[2], s2[1], s2[3]>> ELSE s2

collapse_duplicates3(array) ==
    LET len1 == IF array[2] = array[3] THEN 2 ELSE 3
    IN  IF array[1] = array[2] THEN 1 ELSE len1

\* The body of solve_cubic_poly is split where its locals are bound.

\* the branch of three real roots
solve_cubic_three_roots(theta, neg2_root_q, adiv3) ==
    LET two_pi == FMul(Lit(2), FLOAT_PI)
        t0 == TValue_new_bounded(
                  FSub(FMul(neg2_root_q, FCos(FDiv(theta, Lit(3)))), adiv3))
        t1 == TValue_new_bounded(
                  FSub(FMul(neg2_root_q, FCos(FDiv(FAdd(theta, two_pi), Lit(3)))), adiv3))
        t2 == TValue_new_bounded(
                  FSub(FMul(neg2_root_q, FCos(FDiv(FSub(theta, two_pi), Lit(3)))), adiv3))
    IN  sort_array3(<<t0, t1, t2>>)

\* the branch of one real root, from a = scalar_cube_root(...)
solve_cubic_one_root(a, q, r, adiv3) ==
    LET a2 == IF FGt(r, 0) THEN FNeg(a) ELSE a
    IN  TValue_new_bounded(FSub(IF FNe(a2, 0) THEN FAdd(a2, FDiv(q, a2)) ELSE a2, adiv3))

\* the sorted roots are counted
solve_cubic_collapse(sorted) == RootsResult(collapse_duplicates3(sorted), sorted)

solve_cubic_branch(q, r, q3, r2_minus_q3, adiv3, t_values) ==
    IF FLt(r2_minus_q3, 0) THEN
        \* we have 3 real roots
        solve_cubic_collapse(
            solve_cubic_three_roots(FAcos(bound(FDiv(r, FSqrt(q3)), -One, One)),
                                    FMul(-Lit(2), FSqrt(q)), adiv3))
    ELSE
        \* we have 1 real root
        RootsResult(1, [t_values EXCEPT ![1] =
            solve_cubic_one_root(scalar_cube_root(FAdd(FAbs(r), FSqrt(r2_minus_q3))),
                                 q, r, adiv3)])

solve_cubic_q3(q, r, q3, adiv3, t_values) ==
    solve_cubic_branch(q, r, q3, FSub(FMul(r, r), q3), adiv3, t_values)

solve_cubic_qr(a, q, r, t_values) ==
    solve_cubic_q3(q, r, FMul(FMul(q, q), q), FDiv(a, Lit(3)), t_values)

solve_cubic_normalized(a, b, c, t_values) ==
    solve_cubic_qr(a,
                   FDiv(FSub(FMul(a, a), FMul(b, Lit(3))), Lit(9)),
                   FDiv(FAdd(FSub(FMul(FMul(FMul(Lit(2), a), a), a),
                                  FMul(FMul(Lit(9), a), b)),
                             FMul(Lit(27), c)),
                        Lit(54)),
                   t_values)

solve_cubic_inverted(coeff, inva, t_values) ==
    solve_cubic_normalized(FMul(coeff[2], inva), FMul(coeff[3], inva),
                           FMul(coeff[4], inva), t_values)

solve_cubic_poly(coeff, t_values) ==
    IF is_nearly_zero(coeff[1]) THEN
        \* we're just a quadratic
        find_unit_quad_roots(coeff[2], coeff[3], coeff[4], t_values)
    ELSE solve_cubic_inverted(coeff, invert(coeff[1]), t_values)

\* src holds the coordinates of one axis of the four points
formulate_f1_dot_f2(src) ==
    LET a == FSub(src[2], src[1])
        b == FAdd(FSub(src[3], FMul(Lit(2), src[2])), src[1])
        c == FSub(FAdd(src[4], FMul(Lit(3), FSub(src[2], src[3]))), src[1])
    IN  << FMul(c, c),
           FMul(FMul(Lit(3), b), c),
           FAdd(FMul(FMul(Lit(2), b), b), FMul(c, a)),
           FMul(a, b) >>

find_cubic_max_curvature(src, t_values) ==
    LET coeff_x == formulate_f1_dot_f2([i \in 1..4 |-> src[i][1]])
        coeff_y == formulate_f1_dot_f2([i \in 1..4 |-> src[i][2]])
    IN  solve_cubic_poly([i \in 1..4 |-> FAdd(coeff_x[i], coeff_y[i])], t_values)

find_cubic_inflections(src, t_values) ==
    LET ax == FSub(src[2][1], src[1][1])
        ay == FSub(src[2][2], src[1][2])
        bx == FAdd(FSub(src[3][1], FMul(Lit(2), src[2][1])), src[1][1])
        by == FAdd(FSub(src[3][2], FMul(Lit(2), src[2][2])), src[1][2])
        cx == FSub(FAdd(src[4][1], FMul(Lit(3), FSub(src[2][1], src[3][1]))), src[1][1])
        cy == FSub(FAdd(src[4][2], FMul(Lit(3), FSub(src[2][2], src[3][2]))), src[1][2])
    IN  find_unit_quad_roots(FSub(FMul(bx, cy), FMul(by, cx)),
                             FSub(FMul(ax, cy), FMul(ay, cx)),
                             FSub(FMul(ax, by), FMul(ay, bx)),
                             t_values)

\* ------------------------------------------------------------------------
\* Conic and Conic::build_unit_arc

\* Conic::new
Conic_new(pt0, pt1, pt2, weight) == [points |-> <<pt0, pt1, pt2>>, weight |-> weight]

\* Point::dot and Point::cross
dot(p, q) == FAdd(FMul(p[1], q[1]), FMul(p[2], q[2]))

cross(p, q) == FSub(FMul(p[1], q[2]), FMul(p[2], q[1]))

\* Point::set_length: the vector scaled to the length given
set_length(p, length) ==
    Pt(FMul(p[1], FDiv(length, FSqrt(dot(p, p)))),
       FMul(p[2], FDiv(length, FSqrt(dot(p, p)))))

\* Point::almost_equal: the difference cannot be normalized
almost_equal(p, q) ==
    \/ ~IsFinite(FSub(p[1], q[1])) \/ ~IsFinite(FSub(p[2], q[2]))
    \/ (FEq(FSub(p[1], q[1]), 0) /\ FEq(FSub(p[2], q[2]), 0))

\* crate::scalar::SCALAR_ROOT_2_OVER_2
SCALAR_ROOT_2_OVER_2 == RoundRat(7071 * One, 10000)

\* Transform: the affine map (x, y) -> (sx x + kx y + tx, ky x + sy y + ty)
Transform_from_row(sx, ky, kx, sy, tx, ty) ==
    [sx |-> sx, ky |-> ky, kx |-> kx, sy |-> sy, tx |-> tx, ty |-> ty]

Transform_identity == Transform_from_row(One, 0, 0, One, 0, 0)

Transform_from_sin_cos(sin, cos) == Transform_from_row(cos, sin, FNeg(sin), cos, 0, 0)

\* the map that applies b, then a
Transform_concat(a, b) ==
    Transform_from_row(
        FAdd(FMul(a.sx, b.sx), FMul(a.kx, b.ky)),
        FAdd(FMul(a.ky, b.sx), FMul(a.sy, b.ky)),
        FAdd(FMul(a.sx, b.kx), FMul(a.kx, b.sy)),
        FAdd(FMul(a.ky, b.kx), FMul(a.sy, b.sy)),
        FAdd(FAdd(FMul(a.sx, b.tx), FMul(a.kx, b.ty)), a.tx),
        FAdd(FAdd(FMul(a.ky, b.tx), FMul(a.sy, b.ty)), a.ty))

Transform_pre_scale(ts, sx, sy) ==
    Transform_concat(ts, Transform_from_row(sx, 0, 0, sy, 0, 0))

Transform_post_concat(ts, other) == Transform_concat(other, ts)

Transform_map_point(ts, p) ==
    Pt(FAdd(FAdd(FMul(ts.sx, p[1]), FMul(ts.kx, p[2])), ts.tx),
       FAdd(FAdd(FMul(ts.ky, p[1]), FMul(ts.sy, p[2])), ts.ty))

Transform_map_points(ts, points) ==
    [i \in DOMAIN points |-> Transform_map_point(ts, points[i])]

\* the table of unit corners: quadrant_points[k + 1] is corner k
quadrant_points ==
    << Pt(One, 0), Pt(One, One), Pt(0, One), Pt(-One, One),
       Pt(-One, 0), Pt(-One, -One), Pt(0, -One), Pt(One, -One) >>

\* the check for (effectively) coincident vectors
arc_is_degenerate(x, y, dir) ==
    /\ FLe(FAbs(y), SCALAR_NEARLY_ZERO)
    /\ FGt(x, 0)
    /\ (FGe(y, 0) /\ dir = "CW") \/ (FLe(y, 0) /\ dir = "CCW")

\* a plausible slip: the quarter after an even one is chosen on the sign of
\* x alone
arc_quadrant_x_only(x, y) ==
    IF FEq(y, 0) THEN 2
    ELSE IF FEq(x, 0) THEN (IF FGt(y, 0) THEN 1 ELSE 3)
    ELSE (IF FLt(y, 0) THEN 2 ELSE 0) + (IF FLt(x, 0) THEN 1 ELSE 0)

\* the quadrant [x, y] lies in
arc_quadrant(x, y) ==
    IF FEq(y, 0) THEN 2
    ELSE IF FEq(x, 0) THEN (IF FGt(y, 0) THEN 1 ELSE 3)
    ELSE (IF FLt(y, 0) THEN 2 ELSE 0) + (IF FLt(x, 0) # FLt(y, 0) THEN 1 ELSE 0)

\* the conics of the full quadrants: dst[i] for i in 0..quadrant-1, here
\* numbered from 1
arc_full_conics(quadrant) ==
    [i \in 1..quadrant |->
        Conic_new(quadrant_points[2 * i - 1], quadrant_points[2 * i],
                  quadrant_points[2 * i + 1], SCALAR_ROOT_2_OVER_2)]

\* the conic of the remaining arc, if the off-curve point is apart from last_q
arc_partial_conic(last_q, off_curve, final_pt, cos_theta_over_2) ==
    IF ~almost_equal(last_q, off_curve)
    THEN << Conic_new(last_q, off_curve, final_pt, cos_theta_over_2) >>
    ELSE << >>

arc_partial_scaled(last_q, final_pt, cos_theta_over_2) ==
    arc_partial_conic(last_q,
                      set_length(Pt(FAdd(last_q[1], final_pt[1]), FAdd(last_q[2], final_pt[2])),
                                 invert(cos_theta_over_2)),
                      final_pt, cos_theta_over_2)

\* any remaining (sub-90-degree) arc for the last conic
arc_partial(last_q, final_pt, d) ==
    IF FLt(d, One)
    THEN arc_partial_scaled(last_q, final_pt, FSqrt(FDiv(FAdd(One, d), Two)))
    ELSE << >>

\* the conics before the transform
arc_conics(x, y, quadrant) ==
    arc_full_conics(quadrant)
        \o arc_partial(quadrant_points[quadrant * 2 + 1], Pt(x, y),
                       dot(quadrant_points[quadrant * 2 + 1], Pt(x, y)))

\* the rotation by u_start, the flip for CCW, then the user transform
arc_transform(u_start, dir, user_transform) ==
    Transform_post_concat(
        IF dir = "CCW"
        THEN Transform_pre_scale(Transform_from_sin_cos(u_start[2], u_start[1]), One, -One)
        ELSE Transform_from_sin_cos(u_start[2], u_start[1]),
        user_transform)

\* a slot of dst the call did not assign
StaleConic == [points |-> <<Stale, Stale, Stale>>, weight |-> Unwritten]

\* dst and the length of the slice returned
ArcResult(conics, ts) ==
    [n   |-> Len(conics),
     dst |-> [i \in 0..4 |->
                IF i < Len(conics)
                THEN [points |-> Transform_map_points(ts, conics[i + 1].points),
                      weight |-> conics[i + 1].weight]
                ELSE StaleConic]]

build_unit_arc_xy(x, y, u_start, dir, user_transform) ==
    IF arc_is_degenerate(x, y, dir) THEN ArcResult(<< >>, Transform_identity)
    ELSE ArcResult(arc_conics(x, IF dir = "CCW" THEN FNeg(y) ELSE y,
                              arc_quadrant(x, IF dir = "CCW" THEN FNeg(y) ELSE y)),
                   arc_transform(u_start, dir, user_transform))

build_unit_arc(u_start, u_stop, dir, user_transform) ==
    build_unit_arc_xy(dot(u_start, u_stop), cross(u_start, u_stop),
                      u_start, dir, user_transform)

\* ------------------------------------------------------------------------
\* Conic::chop

Half == One \div 2

\* Point::is_finite: both coordinates are finite
Point_is_finite(p) == IsFinite(p[1]) /\ IsFinite(p[2])

subdivide_weight_value(w) == FSqrt(FAdd(Half, FMul(w, Half)))

\* the sum u + v of two f64 of which one at least is not finite
DAddInf(u, v) ==
    IF IsNaN(u) \/ IsNaN(v) THEN NaN
    ELSE IF ~IsFinite(u) /\ ~IsFinite(v) THEN (IF u = v THEN u ELSE NaN)
    ELSE IF ~IsFinite(u) THEN u
    ELSE v

\* the product x * y of two f64 of which one at least is not finite
DMulInf(x, y) ==
    IF IsNaN(x) \/ IsNaN(y) \/ x = 0 \/ y = 0 THEN NaN
    ELSE Sign(x) * Sign(y) * PosInf

\* (p0 + w_2 * p1 + p2) * scale_half as f32, for finite f32 values p0, p1,
\* p2 and w # -1: the f64 operations neither overflow nor lose what the cast
\* to f32 keeps, so the result is the exact value rounded to f32
chop_mid_f64_finite(p0, p1, p2, w) ==
    IF One + w > 0
    THEN RoundRat(p0 * One + 2 * w * p1 + p2 * One, 2 * (One + w))
    ELSE RoundRat(-(p0 * One + 2 * w * p1 + p2 * One), -2 * (One + w))

\* the same when w = -1 (scale_half is 1.0 / 0.0 * 0.5, infinite), or when
\* p0, p1 or p2 is infinite or NaN: sum is p0 + w_2 * p1 + p2
chop_mid_f64_special(sum, w) ==
    IF w = -One THEN DMulInf(sum, PosInf) ELSE DMulInf(sum, One + w)

chop_mid_f64_sum(p0, wp1, p2) ==
    IF IsFinite(p0) /\ IsFinite(wp1) /\ IsFinite(p2) THEN Sign(p0 * One + wp1 + p2 * One)
    ELSE DAddInf(DAddInf(p0, wp1), p2)

\* one coordinate of the junction recomputed in f64 and cast to f32
chop_mid_f64(p0, p1, p2, w) ==
    IF ~IsFinite(w) THEN NaN
    ELSE IF w # -One /\ IsFinite(p0) /\ IsFinite(p1) /\ IsFinite(p2)
    THEN chop_mid_f64_finite(p0, p1, p2, w)
    ELSE chop_mid_f64_special(
             chop_mid_f64_sum(p0, IF IsFinite(p1) THEN 2 * w * p1 ELSE DMulInf(w, p1), p2), w)

\* the junction: m if finite, else recomputed in f64
chop_m_pt(c, m) ==
    IF Point_is_finite(m) THEN m
    ELSE Pt(chop_mid_f64(c.points[1][1], c.points[2][1], c.points[3][1], c.weight),
            chop_mid_f64(c.points[1][2], c.points[2][2], c.points[3][2], c.weight))

\* the two conics of Conic::chop
chop_pair(c, scale, new_w, wp1, m_pt) ==
    << [points |-> <<c.points[1], VMul(VAdd(c.points[1], wp1), scale), m_pt>>,
        weight |-> new_w],
       [points |-> <<m_pt, VMul(VAdd(wp1, c.points[3]), scale), c.points[3]>>,
        weight |-> new_w] >>

chop_scaled(c, scale, wp1) ==
    chop_pair(c, scale, subdivide_weight_value(c.weight), wp1,
              chop_m_pt(c, VMul(VMul(VAdd(VAdd(c.points[1], times_2(wp1)), c.points[3]),
                                     scale),
                                splat(Half))))

Conic_chop(c) ==
    chop_scaled(c, splat(invert(FAdd(One, c.weight))), VMul(splat(c.weight), c.points[2]))

\* ------------------------------------------------------------------------
\* subdivide and Conic::chop_into_quads_pow2.  The points slice is the
\* buffer with the offset of its first slot; the run of a subdivision is
\* the buffer, the offset of the slice it returns, how often each slot was
\* assigned, and the chops made in the order of the calls (the conic split
\* and its two children as the recursion receives them).

between(a, b, c) == FLe(FMul(FSub(a, b), FSub(c, b)), 0)

\* the junction y after the first test of the guard
guard_mid_y(start_y, mid_y, end_y) ==
    IF ~between(start_y, mid_y, end_y)
    THEN (IF FLt(FAbs(FSub(mid_y, start_y)), FAbs(FSub(mid_y, end_y))) THEN start_y ELSE end_y)
    ELSE mid_y

\* the y of the first and of the second control after their tests
guard_left_y(start_y, left_y, mid_y) ==
    IF ~between(start_y, left_y, mid_y) THEN start_y ELSE left_y

guard_right_y(mid_y, right_y, end_y) ==
    IF ~between(mid_y, right_y, end_y) THEN end_y ELSE right_y

SetY(p, y) == Pt(p[1], y)

\* a plausible slip: the junction is moved in the left child only
guard_children_left_only(dst, start_y, mid_y, end_y) ==
    << [points |-> << dst[1].points[1],
                      SetY(dst[1].points[2], guard_left_y(start_y, dst[1].points[2][2], mid_y)),
                      SetY(dst[1].points[3], mid_y) >>,
        weight |-> dst[1].weight],
       [points |-> << dst[2].points[1],
                      SetY(dst[2].points[2], guard_right_y(mid_y, dst[2].points[2][2], end_y)),
                      dst[2].points[3] >>,
        weight |-> dst[2].weight] >>

\* the children with the junction y and the two control ys of the guard
guard_children(dst, start_y, mid_y, end_y) ==
    << [points |-> << dst[1].points[1],
                      SetY(dst[1].points[2], guard_left_y(start_y, dst[1].points[2][2], mid_y)),
                      SetY(dst[1].points[3], mid_y) >>,
        weight |-> dst[1].weight],
       [points |-> << SetY(dst[2].points[1], mid_y),
                      SetY(dst[2].points[2], guard_right_y(mid_y, dst[2].points[2][2], end_y)),
                      dst[2].points[3] >>,
        weight |-> dst[2].weight] >>

\* the chop of src and the monotonic-y guard
guarded_chop(src, dst) ==
    IF between(src.points[1][2], src.points[2][2], src.points[3][2])
    THEN guard_children(dst, src.points[1][2],
                        guard_mid_y(src.points[1][2], dst[1].points[3][2], src.points[3][2]),
                        src.points[3][2])
    ELSE dst

\* the run of a subdivision before any assignment
NewRun(points, off) ==
    [points |-> points, off |-> off, writes |-> [i \in DOMAIN points |-> 0], chops |-> << >>]

\* points[0] = p; points = &mut points[1..]
RunWrite(run, p) ==
    [run EXCEPT !.points = [i \in DOMAIN run.points |-> IF i = run.off THEN p ELSE run.points[i]],
                !.writes = [i \in DOMAIN run.points |->
                               IF i = run.off THEN run.writes[i] + 1 ELSE run.writes[i]],
                !.off = run.off + 1]

RunChop(run, src, dst) ==
    [run EXCEPT !.chops = Append(run.chops, [src |-> src, left |-> dst[1], right |-> dst[2]])]

RECURSIVE subdivide(_, _, _)

subdivide_children(dst, run, level) ==
    subdivide(dst[2], subdivide(dst[1], run, level), level)

subdivide(src, run, level) ==
    IF level = 0 THEN RunWrite(RunWrite(run, src.points[2]), src.points[3])
    ELSE subdivide_children(guarded_chop(src, Conic_chop(src)),
                            RunChop(run, src, guarded_chop(src, Conic_chop(src))),
                            level - 1)

\* a plausible slip: the pin stops one point short
pin_to_hull_short(c, points, pt_count) ==
    IF \E i \in 0..(pt_count - 1) : ~Point_is_finite(points[i])
    THEN [i \in DOMAIN points |-> IF i >= 1 /\ i < pt_count - 2 THEN c.points[2] ELSE points[i]]
    ELSE points

\* if a point is not finite, the points between the first and the last are
\* put on the middle of the hull
pin_to_hull(c, points, pt_count) ==
    IF \E i \in 0..(pt_count - 1) : ~Point_is_finite(points[i])
    THEN [i \in DOMAIN points |-> IF i >= 1 /\ i < pt_count - 1 THEN c.points[2] ELSE points[i]]
    ELSE points

\* what chop_into_quads_pow2 returns and leaves in points, with the run of
\* its subdivision
QuadsResult(c, pow2, run) ==
    [n      |-> Pow2(pow2),
     points |-> pin_to_hull(c, run.points, 2 * Pow2(pow2) + 1),
     run    |-> run]

chop_into_quads_pow2(c, pow2, points) ==
    QuadsResult(c, pow2,
                subdivide(c, NewRun([points EXCEPT ![0] = c.points[1]], 1), pow2))

\* ------------------------------------------------------------------------
\* find_quad_max_curvature.  The result of a call is what it returned, or
\* that it panicked.

\* NormalizedF32::new: a finite value in [0, 1]
NormalizedF32_new(n) == IF IsFinite(n) /\ n >= 0 /\ n <= One THEN Some(n) ELSE None

Returned(v) == [ok |-> TRUE, value |-> v]

Panicked == [ok |-> FALSE, value |-> NaN]

\* Option::unwrap
unwrap(o) == IF IsSome(o) THEN Returned(o[1]) ELSE Panicked

\* the returns of find_quad_max_curvature
quad_max_curvature_clamp(numer, denom) ==
    IF FLe(numer, 0) THEN Returned(0)
    ELSE IF FGe(numer, denom) THEN Returned(One)
    ELSE unwrap(NormalizedF32_new(FDiv(numer, denom)))

\* the negation of both for a negative denominator
quad_max_curvature_signed(numer, denom) ==
    IF FLt(denom, 0) THEN quad_max_curvature_clamp(FNeg(numer), FNeg(denom))
    ELSE quad_max_curvature_clamp(numer, denom)

\* numer and denom of find_quad_max_curvature
quad_max_curvature_numer(ax, ay, bx, by) == FNeg(FAdd(FMul(ax, bx), FMul(ay, by)))

quad_max_curvature_denom(bx, by) == FAdd(FMul(bx, bx), FMul(by, by))

\* ax, ay (axis 1, 2) and bx, by of find_quad_max_curvature
quad_max_curvature_a(src, axis) == FSub(src[2][axis], src[1][axis])

quad_max_curvature_b(src, axis) ==
    FAdd(FSub(FSub(src[1][axis], src[2][axis]), src[2][axis]), src[3][axis])

find_quad_max_curvature(src) ==
    quad_max_curvature_signed(
        quad_max_curvature_numer(quad_max_curvature_a(src, 1), quad_max_curvature_a(src, 2),
                                 quad_max_curvature_b(src, 1), quad_max_curvature_b(src, 2)),
        quad_max_curvature_denom(quad_max_curvature_b(src, 1), quad_max_curvature_b(src, 2)))

\* ------------------------------------------------------------------------
\* QuadCoeff, CubicCoeff and eval_cubic_at.  t is a NormalizedF32, a float
\* in [0, 1].

\* QuadCoeff::eval
QuadCoeff_eval(k, t) == VAdd(VMul(VAdd(VMul(k.a, t), k.b), t), k.c)

\* CubicCoeff::from_points
CubicCoeff_from_points(points) ==
    LET p0 == points[1]
        p1 == points[2]
        p2 == points[3]
        p3 == points[4]
        three == splat(Lit(3))
    IN  [a |-> VSub(VAdd(p3, VMul(three, VSub(p1, p2))), p0),
         b |-> VMul(three, VAdd(VSub(p2, times_2(p1)), p0)),
         c |-> VMul(three, VSub(p1, p0)),
         d |-> p0]

\* CubicCoeff::eval
CubicCoeff_eval(k, t) == VAdd(VMul(VAdd(VMul(VAdd(VMul(k.a, t), k.b), t), k.c), t), k.d)

\* a plausible slip: the middle coefficient is not doubled
eval_cubic_derivative_b_single(src, t) ==
    LET p0 == src[1]
        p1 == src[2]
        p2 == src[3]
        p3 == src[4]
    IN  QuadCoeff_eval([a |-> VSub(VAdd(p3, VMul(splat(Lit(3)), VSub(p1, p2))), p0),
                        b |-> VAdd(VSub(p2, times_2(p1)), p0),
                        c |-> VSub(p1, p0)],
                       splat(t))

eval_cubic_derivative(src, t) ==
    LET p0 == src[1]
        p1 == src[2]
        p2 == src[3]
        p3 == src[4]
    IN  QuadCoeff_eval([a |-> VSub(VAdd(p3, VMul(splat(Lit(3)), VSub(p1, p2))), p0),
                        b |-> times_2(VAdd(VSub(p2, times_2(p1)), p0)),
                        c |-> VSub(p1, p0)],
                       splat(t))

\* a plausible slip: the middle control point is not doubled
eval_cubic_2nd_derivative_p1_single(src, t) ==
    LET p0 == src[1]
        p1 == src[2]
        p2 == src[3]
        p3 == src[4]
        a  == VSub(VAdd(p3, VMul(splat(Lit(3)), VSub(p1, p2))), p0)
        b  == VAdd(VSub(p2, p1), p0)
    IN  VAdd(VMul(a, splat(t)), b)

eval_cubic_2nd_derivative(src, t) ==
    LET p0 == src[1]
        p1 == src[2]
        p2 == src[3]
        p3 == src[4]
        a  == VSub(VAdd(p3, VMul(splat(Lit(3)), VSub(p1, p2))), p0)
        b  == VAdd(VSub(p2, times_2(p1)), p0)
    IN  VAdd(VMul(a, splat(t)), b)

\* Point == Point: both coordinates equal
PtEq(p, q) == FEq(p[1], q[1]) /\ FEq(p[2], q[2])

\* the test of eval_cubic_at for the degenerate end points
IsDegenerateEnd(src, t) ==
    (FEq(t, 0) /\ PtEq(src[1], src[2])) \/ (FEq(t, One) /\ PtEq(src[3], src[4]))

\* the second choice of the fallback: tangent is the first one
eval_cubic_fallback(src, tangent) ==
    IF FNe(tangent[1], 0) /\ FNe(tangent[2], 0) THEN VSub(src[4], src[1]) ELSE tangent

\* the tangent branch of eval_cubic_at
eval_cubic_tangent(src, t) ==
    IF IsDegenerateEnd(src, t)
    THEN eval_cubic_fallback(src, IF FEq(t, 0) THEN VSub(src[3], src[1])
                                               ELSE VSub(src[4], src[2]))
    ELSE eval_cubic_derivative(src, t)

\* eval_cubic_at: want names the outputs the caller passed as Some; the
\* others are left as they were
eval_cubic_at(src, t, want) ==
    [loc       |-> IF "loc" \in want
                   THEN CubicCoeff_eval(CubicCoeff_from_points(src), splat(t))
                   ELSE Stale,
     tangent   |-> IF "tangent" \in want THEN eval_cubic_tangent(src, t) ELSE Stale,
     curvature |-> IF "curvature" \in want THEN eval_cubic_2nd_derivative(src, t)
                   ELSE Stale]

\* ------------------------------------------------------------------------
\* The arguments the calls are made with.

\* largest whole coordinate of an input point
CoordMax == 2

\* whole coordinates
Coords == { x \in Floats : x % One = 0 /\ Abs(x) <= CoordMax * One }

\* whole and half coordinates, the smallest subnormal and the largest value
WideCoords ==
    { x \in Floats : x % (One \div 2) = 0 /\ Abs(x) <= CoordMax * One }
        \cup {1, -1, MaxFinite, -MaxFinite}

\* whole coordinates and the largest value
FarCoords == Coords \cup {MaxFinite, -MaxFinite}

\* the coordinates on the axis a call does not look at
OtherQuad == { <<0, One, Two>>, <<Two, 0, One>> }

OtherCubic == { <<0, One, Two, Three>> }

\* a curve from its coordinates on one axis and those on the other
OnAxis(axis, on, other) ==
    [i \in DOMAIN on |-> IF axis = 1 THEN Pt(on[i], other[i]) ELSE Pt(other[i], on[i])]

\* ascending sequences of up to three TValues, equal neighbours included:
\* chop_cubic_at takes any slice, its callers pass it sorted
SortedTValues ==
    { << >> }
    \cup { <<t>> : t \in TValues }
    \cup { tt \in TValues \X TValues : tt[1] <= tt[2] }
    \cup { tt \in TValues \X TValues \X TValues : tt[1] <= tt[2] /\ tt[2] <= tt[3] }

ChopCubics ==
    { <<Pt(0, 0), Pt(c, Three), Pt(Two, c), Pt(Three, One)>> : c \in Coords }

\* coefficients of a quadratic: whole and half values, the extremes of the
\* format and the non-finite values
QuadCoeffs == WideCoords \cup {PosInf, NegInf, NaN}

\* coefficients of a cubic polynomial
PolyCoeffs ==
    Coords \cup {One \div 2, -(One \div 2), SCALAR_NEARLY_ZERO, MaxFinite, PosInf, NaN}

\* candidate roots: the two ends of the range of TValue::new_bounded and
\* values between them
CandidateRoots ==
    { TValue_new_bounded(0), One \div 4, One \div 2, TValue_new_bounded(One) }

\* cubics from the origin to a point at height one
RootCubics ==
    { <<Pt(0, 0), Pt(x1, y1), Pt(x2, y2), Pt(x3, One)>> :
        x1 \in Coords, y1 \in Coords, x2 \in Coords, y2 \in Coords, x3 \in Coords }

\* quads from the origin, with whole coordinates and the largest value
CurvatureQuads ==
    { <<Pt(0, 0), Pt(x1, y1), Pt(x2, y2)>> :
        x1 \in FarCoords, y1 \in FarCoords, x2 \in FarCoords, y2 \in FarCoords }

\* coordinates of a direction: zero, the smallest value, about sqrt(2)/2
\* and one, of either sign
ArcCoords ==
    { 0, 1, -1, SCALAR_ROOT_2_OVER_2, -SCALAR_ROOT_2_OVER_2, One, -One }

\* the start of an arc: the unit vectors of the axes
ArcStarts == { Pt(One, 0), Pt(0, One), Pt(-One, 0), Pt(0, -One) }

ArcStops == { Pt(x, y) : x \in ArcCoords, y \in ArcCoords }

\* user transforms: the identity and a translation
ArcTransforms == { Transform_identity, Transform_from_row(One, 0, 0, One, One, Two) }

\* the ys of the points of a conic: zero, the smallest value, one, two and
\* the largest value
ConicYs == { -MaxFinite, -One, 0, 1, One, Two, MaxFinite }

ConicXs == { One, MaxFinite }

\* weights: a quarter arc, a quadratic, a hyperbola, and the weight whose
\* scale is infinite
ConicWeights == { SCALAR_ROOT_2_OVER_2, One, Two, -One }

Conics ==
    { Conic_new(Pt(0, y0), Pt(x1, y1), Pt(x2, y2), w) :
        y0 \in ConicYs, y1 \in ConicYs, y2 \in ConicYs,
        x1 \in ConicXs, x2 \in ConicXs, w \in ConicWeights }

\* room for the 17 points of eight quads, and one slot more
ConicDstLen == 18

\* the coordinates of a cubic on the axis under study, from the origin
EvalCoords == { <<0, x1, x2, x3>> : x1 \in Coords, x2 \in Coords, x3 \in Coords }

\* the coordinates on the other axis: the first two and the last two points
\* level, none, the first three, or the last three
EvalOther == { <<0, 0, One, One>>, <<0, One, Two, 0>>, <<0, 0, 0, One>>, <<0, One, One, One>> }

\* parameters: the quarters of [0, 1]
EvalTs == { t \in Floats : t >= 0 /\ t <= One /\ t % (One \div 4) = 0 }

\* room for the four cubics of a chop at three parameters, and one slot more
ChopDstLen == 14

\* ------------------------------------------------------------------------
\* The state: the functions of the file are pure and share no state, so a
\* state of the program is a call in progress: the function called, its
\* arguments and, once it has returned, what it returned or wrote.

VARIABLES pc, call, arg, ret

vars == <<pc, call, arg, ret>>

Init ==
    /\ pc = "idle"
    /\ call = "none"
    /\ arg = << >>
    /\ ret = << >>

\* the caller takes the result; the next call starts from scratch
Return ==
    /\ pc = "done"
    /\ pc' = "idle"
    /\ call' = "none"
    /\ arg' = << >>
    /\ ret' = << >>

Call_valid_unit_divide ==
    /\ pc = "idle"
    /\ \E n \in AllFloats, d \in AllFloats :
        /\ pc' = "done"
        /\ call' = "valid_unit_divide"
        /\ arg' = <<n, d>>
        /\ ret' = valid_unit_divide(n, d)

Call_TValue_new ==
    /\ pc = "idle"
    /\ \E n \in AllFloats :
        /\ pc' = "done"
        /\ call' = "TValue::new"
        /\ arg' = <<n>>
        /\ ret' = TValue_new(n)

Call_TValue_new_bounded ==
    /\ pc = "idle"
    /\ \E n \in AllFloats :
        /\ pc' = "done"
        /\ call' = "TValue::new_bounded"
        /\ arg' = <<n>>
        /\ ret' = TValue_new_bounded(n)

Call_chop_cubic_at ==
    /\ pc = "idle"
    /\ \E src \in ChopCubics, t_values \in SortedTValues :
        /\ pc' = "done"
        /\ call' = "chop_cubic_at"
        /\ arg' = [src |-> src, t_values |-> t_values]
        /\ ret' = chop_cubic_at(src, t_values, Buffer(ChopDstLen))

Call_chop_quad_at_x_extrema ==
    /\ pc = "idle"
    /\ \E a \in WideCoords, b \in WideCoords, c \in WideCoords, o \in OtherQuad :
        LET src == OnAxis(1, <<a, b, c>>, o)
        IN  /\ pc' = "done"
            /\ call' = "chop_quad_at_x_extrema"
            /\ arg' = [src |-> src, axis |-> 1]
            /\ ret' = chop_quad_at_x_extrema(src, Buffer(5))

Call_chop_quad_at_y_extrema ==
    /\ pc = "idle"
    /\ \E a \in WideCoords, b \in WideCoords, c \in WideCoords, o \in OtherQuad :
        LET src == OnAxis(2, <<a, b, c>>, o)
        IN  /\ pc' = "done"
            /\ call' = "chop_quad_at_y_extrema"
            /\ arg' = [src |-> src, axis |-> 2]
            /\ ret' = chop_quad_at_y_extrema(src, Buffer(5))

Call_chop_cubic_at_x_extrema ==
    /\ pc = "idle"
    /\ \E a \in FarCoords, b \in FarCoords, c \in FarCoords, d \in FarCoords, o \in OtherCubic :
        LET src == OnAxis(1, <<a, b, c, d>>, o)
        IN  /\ pc' = "done"
            /\ call' = "chop_cubic_at_x_extrema"
            /\ arg' = [src |-> src, axis |-> 1]
            /\ ret' = chop_cubic_at_x_extrema(src, Buffer(10))

Call_chop_cubic_at_y_extrema ==
    /\ pc = "idle"
    /\ \E a \in FarCoords, b \in FarCoords, c \in FarCoords, d \in FarCoords, o \in OtherCubic :
        LET src == OnAxis(2, <<a, b, c, d>>, o)
        IN  /\ pc' = "done"
            /\ call' = "chop_cubic_at_y_extrema"
            /\ arg' = [src |-> src, axis |-> 2]
            /\ ret' = chop_cubic_at_y_extrema(src, Buffer(10))

Call_find_unit_quad_roots ==
    /\ pc = "idle"
    /\ \E a \in QuadCoeffs, b \in QuadCoeffs, c \in QuadCoeffs :
        /\ pc' = "done"
        /\ call' = "find_unit_quad_roots"
        /\ arg' = <<a, b, c>>
        /\ ret' = find_unit_quad_roots(a, b, c, new_t_values)

Call_find_cubic_extrema ==
    /\ pc = "idle"
    /\ \E a \in FarCoords, b \in FarCoords, c \in FarCoords, d \in FarCoords :
        /\ pc' = "done"
        /\ call' = "find_cubic_extrema"
        /\ arg' = <<a, b, c, d>>
        /\ ret' = find_cubic_extrema(a, b, c, d, new_t_values)

Call_find_cubic_inflections ==
    /\ pc = "idle"
    /\ \E src \in RootCubics :
        /\ pc' = "done"
        /\ call' = "find_cubic_inflections"
        /\ arg' = src
        /\ ret' = find_cubic_inflections(src, new_t_values)

Call_solve_cubic_poly ==
    /\ pc = "idle"
    /\ \E k0 \in PolyCoeffs, k1 \in PolyCoeffs, k2 \in PolyCoeffs, k3 \in PolyCoeffs :
        /\ pc' = "done"
        /\ call' = "solve_cubic_poly"
        /\ arg' = <<k0, k1, k2, k3>>
        /\ ret' = solve_cubic_poly(<<k0, k1, k2, k3>>, new_t_values)

\* the tail of the three-root branch of solve_cubic_poly, on the three
\* candidate roots left by TValue::new_bounded
Call_collapse_duplicates3 ==
    /\ pc = "idle"
    /\ \E t0 \in CandidateRoots, t1 \in CandidateRoots, t2 \in CandidateRoots :
        /\ pc' = "done"
        /\ call' = "collapse_duplicates3"
        /\ arg' = <<t0, t1, t2>>
        /\ ret' = solve_cubic_collapse(sort_array3(<<t0, t1, t2>>))

Call_find_cubic_max_curvature ==
    /\ pc = "idle"
    /\ \E src \in RootCubics :
        /\ pc' = "done"
        /\ call' = "find_cubic_max_curvature"
        /\ arg' = src
        /\ ret' = find_cubic_max_curvature(src, new_t_values)

Call_eval_cubic_at ==
    /\ pc = "idle"
    /\ \E on \in EvalCoords, other \in EvalOther, axis \in {1, 2}, t \in EvalTs,
          want \in SUBSET {"loc", "tangent", "curvature"} :
        /\ pc' = "done"
        /\ call' = "eval_cubic_at"
        /\ arg' = [src |-> OnAxis(axis, on, other), axis |-> axis, t |-> t, want |-> want]
        /\ ret' = eval_cubic_at(OnAxis(axis, on, other), t, want)

Call_find_quad_max_curvature ==
    /\ pc = "idle"
    /\ \E src \in CurvatureQuads :
        /\ pc' = "done"
        /\ call' = "find_quad_max_curvature"
        /\ arg' = src
        /\ ret' = find_quad_max_curvature(src)

Call_build_unit_arc ==
    /\ pc = "idle"
    /\ \E u_start \in ArcStarts, u_stop \in ArcStops, dir \in {"CW", "CCW"},
          user_transform \in ArcTransforms :
        /\ pc' = "done"
        /\ call' = "build_unit_arc"
        /\ arg' = [u_start |-> u_start, u_stop |-> u_stop, dir |-> dir,
                   user_transform |-> user_transform]
        /\ ret' = build_unit_arc(u_start, u_stop, dir, user_transform)

Call_chop_into_quads_pow2 ==
    /\ pc = "idle"
    /\ \E c \in Conics :
        /\ pc' = "done"
        /\ call' = "chop_into_quads_pow2"
        /\ arg' = c
        /\ ret' = chop_into_quads_pow2(c, 3, Buffer(ConicDstLen))

NextDivide ==
    \/ Call_valid_unit_divide
    \/ Call_TValue_new
    \/ Call_TValue_new_bounded
    \/ Return

SpecDivide == Init /\ [][NextDivide]_vars

NextRoots ==
    \/ Call_TValue_new
    \/ Call_TValue_new_bounded
    \/ Call_find_unit_quad_roots
    \/ Call_find_cubic_extrema
    \/ Call_find_cubic_inflections
    \/ Call_solve_cubic_poly
    \/ Call_collapse_duplicates3
    \/ Call_find_cubic_max_curvature
    \/ Return

SpecRoots == Init /\ [][NextRoots]_vars

NextEval ==
    \/ Call_eval_cubic_at
    \/ Return

SpecEval == Init /\ [][NextEval]_vars

NextQuadCurvature ==
    \/ Call_find_quad_max_curvature
    \/ Return

SpecQuadCurvature == Init /\ [][NextQuadCurvature]_vars

NextArc ==
    \/ Call_build_unit_arc
    \/ Return

SpecArc == Init /\ [][NextArc]_vars

NextConic ==
    \/ Call_chop_into_quads_pow2
    \/ Return

SpecConic == Init /\ [][NextConic]_vars

NextChop ==
    \/ Call_chop_cubic_at
    \/ Return

SpecChop == Init /\ [][NextChop]_vars

NextQuadExtrema ==
    \/ Call_chop_quad_at_x_extrema
    \/ Call_chop_quad_at_y_extrema
    \/ Return

SpecQuadExtrema == Init /\ [][NextQuadExtrema]_vars

NextCubicExtrema ==
    \/ Call_chop_cubic_at_x_extrema
    \/ Call_chop_cubic_at_y_extrema
    \/ Return

SpecCubicExtrema == Init /\ [][NextCubicExtrema]_vars

\* ------------------------------------------------------------------------
\* valid_unit_divide: the arguments of the call in the state after the
\* negation, and whether their quotient rounds to zero

NegatedNumer == IF FLt(arg[1], 0) THEN FNeg(arg[1]) ELSE arg[1]

NegatedDenom == IF FLt(arg[1], 0) THEN FNeg(arg[2]) ELSE arg[2]

QuotientUnderflows ==
    \/ NegatedDenom = PosInf
    \/ 2 * NegatedNumer * One <= NegatedDenom

\* C1.  valid_unit_divide(n, d), with n and d both negated when n < 0:
\* it returns none when d = 0, n = 0 or n >= d, and also when n or d is NaN
\* or the quotient rounds to zero (n/d is at most half the smallest
\* subnormal, or d is infinite); in every other case it returns the rounded
\* quotient n/d, which is strictly greater than 0 and strictly less than 1.
C1_UnitDivide ==
    call = "valid_unit_divide" =>
        LET n == NegatedNumer
            d == NegatedDenom
            none == \/ IsNaN(n) \/ IsNaN(d)
                    \/ d = 0 \/ n = 0 \/ n >= d
                    \/ QuotientUnderflows
        IN  /\ (ret = None) <=> none
            /\ ret # None =>
                  /\ ret = Some(FDiv(arg[1], arg[2]))
                  /\ ret[1] > 0 /\ ret[1] < One
                  \* the value returned is the exact quotient to within half a step
                  /\ 2 * Abs(ret[1] * d - n * One) <= d * StepAt(ret[1])

\* a quotient was returned for a negative numerator
C1_Witness ==
    /\ call = "valid_unit_divide"
    /\ arg[1] < 0
    /\ ret # None

\* C1 as stated: none exactly when d = 0, n = 0 or n >= d (finite n, d)
C1_AsStated ==
    (call = "valid_unit_divide" /\ IsFinite(arg[1]) /\ IsFinite(arg[2])) =>
        ((ret = None) <=> (NegatedDenom = 0 \/ NegatedNumer = 0 \/ NegatedNumer >= NegatedDenom))

\* ------------------------------------------------------------------------
\* the root finders

InRootFinder ==
    call \in {"find_unit_quad_roots", "find_cubic_extrema", "find_cubic_inflections",
              "solve_cubic_poly", "find_cubic_max_curvature"}

\* the call in the state is solve_cubic_poly and took the cubic path
InCubicPath == call = "solve_cubic_poly" /\ ~is_nearly_zero(arg[1])

\* C2.  Every TValue in the returned prefix of a root finder
\* (find_unit_quad_roots, find_cubic_extrema, find_cubic_inflections,
\* solve_cubic_poly, find_cubic_max_curvature) is finite and strictly between
\* 0 and 1, for every input; TValue::new returns none exactly for n <= 0,
\* n >= 1 and NaN, and otherwise n itself; TValue::new_bounded returns a
\* value in [EPSILON, 1 - EPSILON], which is n when n is in that range.
C2_RootsInUnit ==
    /\ InRootFinder =>
          /\ ret.n \in 0..3
          /\ \A i \in 1..ret.n :
                IsFinite(ret.roots[i]) /\ ret.roots[i] > 0 /\ ret.roots[i] < One
    /\ call = "TValue::new" =>
          /\ ret = None <=> (IsNaN(arg[1]) \/ arg[1] <= 0 \/ arg[1] >= One)
          /\ ret # None => ret = Some(arg[1])
    /\ call = "TValue::new_bounded" =>
          /\ IsFinite(ret) /\ ret >= EPSILON /\ ret <= One - EPSILON
          /\ (IsFinite(arg[1]) /\ arg[1] >= EPSILON /\ arg[1] <= One - EPSILON)
                => ret = arg[1]

\* the cubic path stored a root pinned to the upper bound
C2_Witness ==
    /\ InCubicPath
    /\ \A i \in 1..4 : IsFinite(arg[i])
    /\ ret.n >= 1
    /\ ret.roots[ret.n] = One - EPSILON

\* C3.  For every input, the roots returned by find_unit_quad_roots (0..2
\* values) and by solve_cubic_poly (up to 3 values) are strictly ascending:
\* roots[i] < roots[i+1] for every adjacent pair of the returned prefix.
C3_RootsAscending ==
    call \in {"find_unit_quad_roots", "solve_cubic_poly"} =>
        \A i \in 1..(ret.n - 1) : ret.roots[i] < ret.roots[i + 1]

\* solve_cubic_poly took the three-root branch and kept three distinct roots
C3_Witness ==
    /\ InCubicPath
    /\ \A i \in 1..4 : IsFinite(arg[i])
    /\ ret.n = 3

\* the polynomial of the call in the state is of one sign on t > 0: its
\* coefficients are finite, none is negative (or none positive), and the
\* constant term is not zero
OneSignedPoly ==
    /\ \A i \in 1..4 : IsFinite(arg[i])
    /\ (\A i \in 1..4 : arg[i] >= 0) \/ (\A i \in 1..4 : arg[i] <= 0)
    /\ arg[4] # 0

\* C4 as stated: solve_cubic_poly returns the number of roots within
\* 0 < t < 1; when the polynomial has no root in (0,1) the count is 0.
\* Stated for the polynomials that are of one sign on t > 0.
C4_AsStated ==
    (call = "solve_cubic_poly" /\ OneSignedPoly) => ret.n = 0

\* ------------------------------------------------------------------------
\* chop_cubic_at: the parameters of the call in the state, and whether the
\* renormalization of the parameter after the i-th (1-based) fails

ChopN == Len(arg.t_values)

RenormFails(i) ==
    /\ i + 1 <= ChopN
    /\ ~IsSome(valid_unit_divide(FSub(arg.t_values[i + 1], arg.t_values[i]),
                                  FSub(One, arg.t_values[i])))

\* C5.  chop_cubic_at with N sorted parameters (1 <= N <= 3) writes 3N+4
\* points, dst[0..=3N+3], with dst[0] equal to src[0] and dst[3N+3] equal to
\* src[3], on the normal path and on the path where a renormalization fails
\* and a degenerate clump is emitted; except when N = 3 and the first
\* renormalization fails: then dst[0..=9] are written, dst[9] is src[3], and
\* dst[10..=12] are left as they were.
C5_ChopEndpoints ==
    (call = "chop_cubic_at" /\ ChopN >= 1) =>
        /\ ret[0] = arg.src[1]
        /\ IF ChopN = 3 /\ RenormFails(1)
           THEN Written(ret) = 0..9 /\ ret[9] = arg.src[4]
           ELSE Written(ret) = 0..(3 * ChopN + 3) /\ ret[3 * ChopN + 3] = arg.src[4]

\* two parameters, the renormalization of the second fails, and the clump
\* of three copies of the end point is in dst[7..=9]
C5_Witness ==
    /\ call = "chop_cubic_at"
    /\ ChopN = 2
    /\ arg.t_values[1] < arg.t_values[2]
    /\ RenormFails(1)
    /\ ret[7] = arg.src[4] /\ ret[8] = arg.src[4] /\ ret[9] = arg.src[4]

\* C5 as stated: dst[0..=3N] written, dst[0] = src[0], dst[3N] = src[3]
C5_AsStated ==
    (call = "chop_cubic_at" /\ ChopN >= 1) =>
        /\ \A i \in 0..(3 * ChopN) : i \in Written(ret)
        /\ ret[0] = arg.src[1]
        /\ ret[3 * ChopN] = arg.src[4]

\* C6.  A cubic chop at k parameters (0 <= k <= 3) needs an output buffer of
\* 3k+4 points: in every execution of chop_cubic_at, the renormalization
\* failure path included, no dst index greater than 3k+3 is written, and
\* index 3k+3 is written whenever no renormalization fails.
C6_ChopBuffer ==
    call = "chop_cubic_at" =>
        /\ \A i \in Written(ret) : i <= 3 * ChopN + 3
        /\ (\A i \in 1..3 : ~RenormFails(i)) => (3 * ChopN + 3) \in Written(ret)

\* three parameters, no failure: the last of the thirteen slots is written
C6_Witness ==
    /\ call = "chop_cubic_at"
    /\ ChopN = 3
    /\ \A i \in 1..3 : ~RenormFails(i)
    /\ 12 \in Written(ret)

\* C6 as stated: no dst index greater than 3k is written
C6_AsStated ==
    call = "chop_cubic_at" => \A i \in Written(ret) : i <= 3 * ChopN

\* ------------------------------------------------------------------------
\* chop_quad_at_{x,y}_extrema: the coordinates of the call in the state on
\* the chopped axis

InQuadExtrema == call \in {"chop_quad_at_x_extrema", "chop_quad_at_y_extrema"}

QuadA == arg.src[1][arg.axis]

QuadB == arg.src[2][arg.axis]

QuadC == arg.src[3][arg.axis]

\* b lies between a and c, the ends included (finite values, compared
\* exactly)
Between(a, b, c) == (a <= b /\ b <= c) \/ (c <= b /\ b <= a)

MonoQuad(dst, i, axis) ==
    /\ IsFinite(dst[i][axis]) /\ IsFinite(dst[i + 1][axis]) /\ IsFinite(dst[i + 2][axis])
    /\ Between(dst[i][axis], dst[i + 1][axis], dst[i + 2][axis])

\* C8.  chop_quad_at_x_extrema and chop_quad_at_y_extrema give monotonic
\* output for every (finite) input: with return value 0 the quad dst[0..=2],
\* with return value 1 both quads dst[0..=2] and dst[2..=4], have their
\* middle coordinate on the chopped axis between (inclusive) those of their
\* end points, also when the middle point was snapped.
C8_QuadExtremaMonotonic ==
    InQuadExtrema =>
        /\ MonoQuad(ret.dst, 0, arg.axis)
        /\ ret.n = 1 => MonoQuad(ret.dst, 2, arg.axis)

\* a quad that was not monotonic and could not be chopped: snapped
C8_Witness ==
    /\ InQuadExtrema
    /\ ~Between(QuadA, QuadB, QuadC)
    /\ ret.n = 0
    /\ ret.dst[1] # arg.src[2]

\* ------------------------------------------------------------------------
\* chop_cubic_at_{x,y}_extrema

InCubicExtrema == call \in {"chop_cubic_at_x_extrema", "chop_cubic_at_y_extrema"}

OtherAxis(axis) == 3 - axis

\* what chop_cubic_at leaves in dst for the call in the state, before the
\* cleanup
CubicExtremaChopped ==
    chop_cubic_at(arg.src,
                  Prefix(find_cubic_extrema(arg.src[1][arg.axis], arg.src[2][arg.axis],
                                            arg.src[3][arg.axis], arg.src[4][arg.axis],
                                            new_t_values)),
                  Buffer(10))

\* C9.  After chop_cubic_at_x_extrema (resp. _y_) returns n, n is 0, 1 or 2;
\* if n >= 1 then dst[2], dst[3] and dst[4] have the same coordinate on the
\* chopped axis; if n = 2 then so have dst[5], dst[6] and dst[7]; the other
\* axis of every point, the junction points dst[3], dst[6] and every point
\* that is not beside a junction are as chop_cubic_at produced them; if
\* n = 0 then dst[0..=3] is the original cubic.
C9_CubicExtremaFlat ==
    InCubicExtrema =>
        LET dst == ret.dst
            ax  == arg.axis
            chopped == CubicExtremaChopped
            beside == IF ret.n = 0 THEN {} ELSE IF ret.n = 1 THEN {2, 4} ELSE {2, 4, 5, 7}
        IN  /\ ret.n \in {0, 1, 2}
            /\ Written(dst) = 0..(3 * ret.n + 3)
            /\ ret.n >= 1 => (dst[2][ax] = dst[3][ax] /\ dst[4][ax] = dst[3][ax])
            /\ ret.n = 2 => (dst[5][ax] = dst[6][ax] /\ dst[7][ax] = dst[6][ax])
            /\ \A i \in 0..9 : dst[i][OtherAxis(ax)] = chopped[i][OtherAxis(ax)]
            /\ \A i \in (0..9) \ beside : dst[i] = chopped[i]
            /\ ret.n = 0 => \A i \in 0..3 : dst[i] = arg.src[i + 1]

\* two extrema, and the cleanup changed a control point beside the second
\* junction
C9_Witness ==
    /\ InCubicExtrema
    /\ ret.n = 2
    /\ ret.dst[5] # CubicExtremaChopped[5]
    /\ ret.dst[6][arg.axis] # ret.dst[3][arg.axis]

\* ------------------------------------------------------------------------
\* eval_cubic_at: the call in the state, one axis at a time, in exact
\* arithmetic.  A value v of the format stands for the number v / One.

EvalP(i, axis) == arg.src[i][axis]

\* v is a value of the format: an operation with exact result v does not
\* round
Exact(v) == v \in Floats

\* the product of x and y is a value of the format
ExactMul(x, y) == (x * y) % One = 0 /\ Exact((x * y) \div One)

\* the coefficients of eval_cubic_derivative, exactly
DerivA(axis) == EvalP(4, axis) + 3 * (EvalP(2, axis) - EvalP(3, axis)) - EvalP(1, axis)

DerivB(axis) == 2 * (EvalP(3, axis) - 2 * EvalP(2, axis) + EvalP(1, axis))

DerivC(axis) == EvalP(2, axis) - EvalP(1, axis)

\* no operation of eval_cubic_derivative rounds on this axis
NoRounding(axis) ==
    LET p0 == EvalP(1, axis)
        p1 == EvalP(2, axis)
        p2 == EvalP(3, axis)
        p3 == EvalP(4, axis)
        t  == arg.t
        at == (DerivA(axis) * t) \div One
    IN  /\ Exact(3 * One)
        /\ Exact(p1 - p2) /\ Exact(3 * (p1 - p2)) /\ Exact(p3 + 3 * (p1 - p2))
        /\ Exact(DerivA(axis))
        /\ Exact(2 * p1) /\ Exact(p2 - 2 * p1) /\ Exact(p2 - 2 * p1 + p0)
        /\ Exact(DerivB(axis))
        /\ Exact(DerivC(axis))
        /\ ExactMul(DerivA(axis), t)
        /\ Exact(at + DerivB(axis))
        /\ ExactMul(at + DerivB(axis), t)
        /\ Exact(((at + DerivB(axis)) * t) \div One + DerivC(axis))

\* the coefficients of CubicCoeff, exactly: a is DerivA
CubicB(axis) == 3 * (EvalP(3, axis) - 2 * EvalP(2, axis) + EvalP(1, axis))

CubicC(axis) == 3 * (EvalP(2, axis) - EvalP(1, axis))

\* One^2 times the derivative 3a t^2 + 2b t + c of CubicCoeff::eval at t
CubicDerivative(axis) ==
    3 * DerivA(axis) * arg.t * arg.t + 2 * CubicB(axis) * arg.t * One
        + CubicC(axis) * One * One

\* the call wrote a tangent outside the degenerate-endpoint special case
TangentByDerivative ==
    /\ call = "eval_cubic_at"
    /\ "tangent" \in arg.want
    /\ ~IsDegenerateEnd(arg.src, arg.t)

\* C10.  For a cubic and parameter t outside the degenerate-endpoint special
\* case, the tangent written by eval_cubic_at is one third of the derivative
\* of CubicCoeff::eval at t: tangent = (3a t^2 + 2b t + c) / 3
\* = a t^2 + 2(p2 - 2p1 + p0) t + (p1 - p0), for the CubicCoeff coefficients
\* a, b, c, on every axis where no floating-point operation of the
\* evaluation rounds.
C10_TangentThird ==
    TangentByDerivative =>
        \A axis \in {1, 2} :
            NoRounding(axis) =>
                3 * ret.tangent[axis] * One * One = CubicDerivative(axis)

\* a parameter inside (0, 1), a cubic term, and a tangent that is not zero
C10_Witness ==
    /\ TangentByDerivative
    /\ arg.t > 0 /\ arg.t < One
    /\ NoRounding(arg.axis)
    /\ DerivA(arg.axis) # 0
    /\ ret.tangent[arg.axis] # 0

\* C10 as stated: the tangent equals 3a t^2 + 2b t + c
C10_AsStated ==
    TangentByDerivative =>
        \A axis \in {1, 2} :
            NoRounding(axis) =>
                ret.tangent[axis] * One * One = CubicDerivative(axis)

\* ------------------------------------------------------------------------
\* eval_cubic_at: the curvature output

\* the call wrote a curvature
CurvatureWritten == call = "eval_cubic_at" /\ "curvature" \in arg.want

\* the constant term of eval_cubic_2nd_derivative, exactly
SecondB(axis) == EvalP(3, axis) - 2 * EvalP(2, axis) + EvalP(1, axis)

\* no operation of eval_cubic_2nd_derivative rounds on this axis
NoRounding2nd(axis) ==
    LET p0 == EvalP(1, axis)
        p1 == EvalP(2, axis)
        p2 == EvalP(3, axis)
        p3 == EvalP(4, axis)
    IN  /\ Exact(3 * One)
        /\ Exact(p1 - p2) /\ Exact(3 * (p1 - p2)) /\ Exact(p3 + 3 * (p1 - p2))
        /\ Exact(DerivA(axis))
        /\ Exact(2 * p1) /\ Exact(p2 - 2 * p1) /\ Exact(SecondB(axis))
        /\ ExactMul(DerivA(axis), arg.t)
        /\ Exact((DerivA(axis) * arg.t) \div One + SecondB(axis))

\* One^2 times the second derivative 2 (3a t + b) of CubicCoeff::eval at t
CubicSecondDerivative(axis) == 6 * DerivA(axis) * arg.t + 2 * CubicB(axis) * One

\* C11.  The curvature output of eval_cubic_at at t is one sixth of the
\* second derivative vector of the cubic: curvature = a t + (p2 - 2p1 + p0)
\* = 2 (3a t + b) / 6, with a = p3 + 3(p1 - p2) - p0 and b = 3(p2 - 2p1 + p0)
\* the CubicCoeff coefficients, for every cubic and every t in [0,1], on
\* every axis where no floating-point operation of the evaluation rounds.
C11_CurvatureSixth ==
    CurvatureWritten =>
        \A axis \in {1, 2} :
            NoRounding2nd(axis) =>
                6 * ret.curvature[axis] * One = CubicSecondDerivative(axis)

\* a parameter inside (0, 1), a cubic term, and a curvature that is not zero
C11_Witness ==
    /\ CurvatureWritten
    /\ arg.t > 0 /\ arg.t < One
    /\ NoRounding2nd(arg.axis)
    /\ DerivA(arg.axis) # 0
    /\ ret.curvature[arg.axis] # 0

\* C11 as stated: the curvature equals 2 (3a t + b)
C11_AsStated ==
    CurvatureWritten =>
        \A axis \in {1, 2} :
            NoRounding2nd(axis) =>
                ret.curvature[axis] * One = CubicSecondDerivative(axis)

\* ------------------------------------------------------------------------
\* find_quad_max_curvature: numer and denom of the call in the state

CurvNumer ==
    quad_max_curvature_numer(quad_max_curvature_a(arg, 1), quad_max_curvature_a(arg, 2),
                             quad_max_curvature_b(arg, 1), quad_max_curvature_b(arg, 2))

CurvDenom ==
    quad_max_curvature_denom(quad_max_curvature_b(arg, 1), quad_max_curvature_b(arg, 2))

\* C12 as stated: find_quad_max_curvature always returns a value in [0,1]
\* (the unwrap of NormalizedF32::new never fails): 0 when numer <= 0, 1 when
\* numer > 0 and numer >= denom, and otherwise the quotient numer/denom.
C12_AsStated ==
    call = "find_quad_max_curvature" =>
        /\ ret.ok
        /\ ret.value >= 0 /\ ret.value <= One
        /\ FLe(CurvNumer, 0) => ret.value = 0
        /\ (FGt(CurvNumer, 0) /\ FGe(CurvNumer, CurvDenom)) => ret.value = One
        /\ (~FLe(CurvNumer, 0) /\ ~FGe(CurvNumer, CurvDenom)) =>
              ret.value = FDiv(CurvNumer, CurvDenom)

\* ------------------------------------------------------------------------
\* Conic::build_unit_arc: x and y of the call in the state (y after the
\* negation for CCW), the quadrant count as the sign analysis gives it, and
\* the transform applied to the conics

InArc == call = "build_unit_arc"

ArcX == dot(arg.u_start, arg.u_stop)

ArcY ==
    IF arg.dir = "CCW" THEN FNeg(cross(arg.u_start, arg.u_stop))
    ELSE cross(arg.u_start, arg.u_stop)

ArcPastDegenerate ==
    InArc /\ ~arc_is_degenerate(ArcX, cross(arg.u_start, arg.u_stop), arg.dir)

ArcQ ==
    IF ArcY = 0 THEN 2
    ELSE IF ArcX = 0 THEN (IF ArcY > 0 THEN 1 ELSE 3)
    ELSE (IF ArcY < 0 THEN 2 ELSE 0) + (IF (ArcX < 0) # (ArcY < 0) THEN 1 ELSE 0)

ArcTs == arc_transform(arg.u_start, arg.dir, arg.user_transform)

\* corner k of the table, k in 0..7
Corner(k) == quadrant_points[k + 1]

\* C13.  Conic::build_unit_arc, when it does not return the empty list,
\* emits exactly q full-quadrant conics taken from the unit-corner table
\* (conic i is corners 2i, 2i+1, 2i+2 with weight sqrt(2)/2, mapped by the
\* output transform) followed by at most one partial conic from corner 2q to
\* the final point (x, y), where q = 2 if y = 0, q = 1 or 3 if x = 0 (y > 0
\* or not), else q = (y<0 ? 2 : 0) + ((x<0) != (y<0) ? 1 : 0); the result
\* never exceeds the 5-conic buffer, every table index used is within the 8
\* corners, and for every (x, y) that gets past the degenerate check the dot
\* product of corner 2q with (x, y) is >= 0.  A 90 degree CW arc gives
\* exactly one conic and a 180 degree CW arc exactly two.
C13_UnitArc ==
    InArc =>
        /\ ret.n \in 0..5
        /\ \A i \in 0..4 : i >= ret.n => ret.dst[i] = StaleConic
        /\ ret.n > 0 =>
              /\ ret.n \in {ArcQ, ArcQ + 1}
              \* the largest table index used, by conic q - 1 and by last_q
              /\ 2 * ArcQ <= 7
              /\ \A i \in 0..(ArcQ - 1) :
                    /\ ret.dst[i].weight = SCALAR_ROOT_2_OVER_2
                    /\ \A j \in 0..2 :
                          ret.dst[i].points[j + 1]
                              = Transform_map_point(ArcTs, Corner(2 * i + j))
              /\ ret.n = ArcQ + 1 =>
                    /\ ret.dst[ArcQ].points[1] = Transform_map_point(ArcTs, Corner(2 * ArcQ))
                    /\ ret.dst[ArcQ].points[3] = Transform_map_point(ArcTs, Pt(ArcX, ArcY))
        /\ ArcPastDegenerate =>
              Corner(2 * ArcQ)[1] * ArcX + Corner(2 * ArcQ)[2] * ArcY >= 0
        /\ (arg.dir = "CW" /\ ArcX = 0 /\ ArcY = One) => ret.n = 1
        /\ (arg.dir = "CW" /\ ArcX = -One /\ ArcY = 0) => ret.n = 2

\* a counter-clockwise arc of three full quadrants and a partial conic
C13_Witness ==
    /\ InArc
    /\ arg.dir = "CCW"
    /\ ArcQ = 3
    /\ ret.n = 4
    /\ ret.dst[3].points[1] = Transform_map_point(ArcTs, Corner(6))

\* ------------------------------------------------------------------------
\* Conic::chop_into_quads_pow2 and subdivide

InQuads == call = "chop_into_quads_pow2"

\* the subdivision emitted a point that is not finite
SubdivisionNotFinite == \E i \in 0..16 : ~Point_is_finite(ret.run.points[i])

\* C14.  For any conic with finite control points, chop_into_quads_pow2(3,
\* dst) returns 8 and leaves dst[0..=16] all written and all finite, with
\* dst[0] equal to p0 and dst[16] equal to p2; whenever subdivision produced
\* any non-finite point among the 17, the 15 interior points dst[1..=15] are
\* all set to p1 and the two end points are kept.
C14_QuadsFinite ==
    InQuads =>
        /\ ret.n = 8
        /\ Written(ret.points) = 0..16
        /\ \A i \in 0..16 : Point_is_finite(ret.points[i])
        /\ ret.points[0] = arg.points[1]
        /\ ret.points[16] = arg.points[3]
        /\ SubdivisionNotFinite => \A i \in 1..15 : ret.points[i] = arg.points[2]

\* a subdivision that emitted a point that is not finite, pinned
C14_Witness ==
    /\ InQuads
    /\ SubdivisionNotFinite
    /\ arg.points[2] # arg.points[1]
    /\ ret.points[15] = arg.points[2]

Chops == { ret.run.chops[k] : k \in DOMAIN ret.run.chops }

Y(p) == p[2]

\* the conic is monotonic in y by the test of the code
MonotonicY(c) == between(Y(c.points[1]), Y(c.points[2]), Y(c.points[3]))

\* the three assertions that close the guard
GuardAssertions(ch) ==
    /\ between(Y(ch.src.points[1]), Y(ch.left.points[2]), Y(ch.left.points[3]))
    /\ between(Y(ch.left.points[2]), Y(ch.left.points[3]), Y(ch.right.points[2]))
    /\ between(Y(ch.left.points[3]), Y(ch.right.points[2]), Y(ch.src.points[3]))

\* p1.y lies between p0.y and p2.y
BetweenY(c) == Between(Y(c.points[1]), Y(c.points[2]), Y(c.points[3]))

\* the five ys of a guarded chop, from start_y to end_y
FiveYs(ch) ==
    << Y(ch.src.points[1]), Y(ch.left.points[2]), Y(ch.left.points[3]),
       Y(ch.right.points[2]), Y(ch.src.points[3]) >>

InOrder(ys) ==
    \/ \A i \in 1..(Len(ys) - 1) : ys[i] <= ys[i + 1]
    \/ \A i \in 1..(Len(ys) - 1) : ys[i] >= ys[i + 1]

\* the ys of the points emitted by subdivide, before any pinning
EmittedYs == [i \in 1..17 |-> Y(ret.run.points[i - 1])]

\* C15.  In conic subdivision, if the conic being split is monotonic in y
\* (p1.y between p0.y and p2.y), then after the guard the five y values
\* start_y, left.p1.y, junction y, right.p1.y, end_y are in monotone order
\* (the three assertions that close the guard hold for every input), so both
\* children are again monotonic in y and the y coordinates of the 17 emitted
\* points are monotone (non-strictly) along the chain.
C15_AsStated ==
    InQuads =>
        /\ \A ch \in Chops :
               BetweenY(ch.src) /\ MonotonicY(ch.src) =>
                   /\ GuardAssertions(ch)
                   /\ InOrder(FiveYs(ch))
                   /\ BetweenY(ch.left) /\ BetweenY(ch.right)
        /\ BetweenY(arg) /\ MonotonicY(arg) => InOrder(EmittedYs)

\* the eight leaves of the subdivision, left to right: the children of the
\* four chops at the last level (the chops are recorded in call order)
Leaves ==
    << ret.run.chops[3].left, ret.run.chops[3].right,
       ret.run.chops[4].left, ret.run.chops[4].right,
       ret.run.chops[6].left, ret.run.chops[6].right,
       ret.run.chops[7].left, ret.run.chops[7].right >>

\* the guard of this chop moved the junction computed by Conic::chop
JunctionMoved(ch) == ch.left.points[3] # Conic_chop(ch.src)[1].points[3]

\* C18.  At every level of conic subdivision, after Conic::chop and the
\* monotonic-y guard, the left child's last point is the right child's first
\* point in both coordinates; each leaf emits only its second and third
\* points, so every emitted quad starts at the end point of the previous one,
\* the chain is emitted left to right in curve order, and each of the 16
\* slots after dst[0] is written exactly once.
C18_ChainContinuous ==
    InQuads =>
        /\ Len(ret.run.chops) = 7
        /\ \A ch \in Chops : ch.left.points[3] = ch.right.points[1]
        /\ \A k \in 1..8 :
               /\ Leaves[k].points[1] = ret.run.points[2 * k - 2]
               /\ Leaves[k].points[2] = ret.run.points[2 * k - 1]
               /\ Leaves[k].points[3] = ret.run.points[2 * k]
        /\ \A i \in 1..16 : ret.run.writes[i] = 1
        /\ ret.run.writes[0] = 0
        /\ \A i \in 17..(ConicDstLen - 1) : ret.run.writes[i] = 0
        /\ ret.run.off = 17

\* a subdivision whose guard moved a junction, in both children alike
C18_Witness ==
    /\ InQuads
    /\ \E ch \in Chops : JunctionMoved(ch) /\ ch.left.points[3] = ch.right.points[1]
    /\ ret.run.off = 17

\* ------------------------------------------------------------------------
\* collapse_duplicates3 in solve_cubic_poly

\* solve_cubic_poly took the branch of three real roots: only this branch
\* of the cubic path assigns t_values[1] and t_values[2]
InThreeRoots == InCubicPath /\ (ret.roots[2] # ANY \/ ret.roots[3] # ANY)

\* C16.  Collapsing duplicates in the three-real-root branch of
\* solve_cubic_poly loses no root: the prefix returned after sort_array3 and
\* collapse_duplicates3 contains every distinct value that occurs among the
\* three candidate roots (in particular when the two smallest are equal and
\* the largest is different, both distinct values are returned).
C16_AsStated ==
    (call = "collapse_duplicates3" \/ InThreeRoots) =>
        \A i \in 1..3 : \E j \in 1..ret.n : ret.roots[j] = ret.roots[i]

\* ------------------------------------------------------------------------
\* the tangent of eval_cubic_at at a degenerate end point

\* eval_cubic_at wrote a tangent at an end point that coincides with its
\* control point
InFallback ==
    /\ call = "eval_cubic_at"
    /\ "tangent" \in arg.want
    /\ IsDegenerateEnd(arg.src, arg.t)

AllSamePoint(src) == \A i \in 2..4 : src[i] = src[1]

\* C17.  The degenerate-endpoint fallback of eval_cubic_at avoids a zero
\* tangent: at t = 0 with p0 = p1, or at t = 1 with p2 = p3, the tangent
\* written is a non-zero vector whenever the four control points are not all
\* the same point.
C17_AsStated ==
    (InFallback /\ ~AllSamePoint(arg.src)) => ret.tangent # Pt(0, 0)

Next ==
    \/ Call_valid_unit_divide
    \/ Call_TValue_new
    \/ Call_TValue_new_bounded
    \/ Call_find_unit_quad_roots
    \/ Call_find_cubic_extrema
    \/ Call_find_cubic_inflections
    \/ Call_solve_cubic_poly
    \/ Call_collapse_duplicates3
    \/ Call_find_cubic_max_curvature
    \/ Call_chop_cubic_at
    \/ Call_chop_quad_at_x_extrema
    \/ Call_chop_quad_at_y_extrema
    \/ Call_chop_cubic_at_x_extrema
    \/ Call_chop_cubic_at_y_extrema
    \/ Call_eval_cubic_at
    \/ Call_find_quad_max_curvature
    \/ Call_build_unit_arc
    \/ Call_chop_into_quads_pow2
    \/ Return

Spec == Init /\ [][Next]_vars
====
